---- MODULE Spec2Model ----
(***************************************************************************)
(* Model of kamend0/poker_hands: the Card/Rank/Suit value types and the    *)
(* Deck of classes/cards.py, the hand evaluator of engine.py, and the      *)
(* older PokerHands evaluator of classes.py with the driver of main.py.    *)
(***************************************************************************)
EXTENDS Integers, Sequences, FiniteSets, TLC

VARIABLES
    cards,      \* engine.find_hands: the list of cards passed in
    report,     \* engine.find_hands: the returned dict, or NoReport
    cmpA, cmpB, \* the two cards of a comparison
    cmpRes,     \* the outcomes of a == b, a < b, b < a, a > b, b > a
    deck,       \* cards.Deck.cards
    drawn,      \* every card returned by a successful draw, in order
    lastDraw,   \* outcome of the last Deck operation
    pc,         \* main.py: position of the driver loop
    hand,       \* main.py: the cards dealt to PokerHands
    ph,         \* the PokerHands object built from the hand, or NoReport
    score,      \* PokerHands.score (main.py starts it at 0)
    best,       \* the category PokerHands.show_best_hand prints
    rankTok,    \* Card(rank=..., suit=...): the rank argument
    suitTok,    \* Card(rank=..., suit=...): the suit argument
    parsed      \* the Card constructed, or the exception raised

vars == <<cards, report, cmpA, cmpB, cmpRes, deck, drawn, lastDraw,
          pc, hand, ph, score, best, rankTok, suitTok, parsed>>

evalVars == <<cards, report>>
cmpVars == <<cmpA, cmpB, cmpRes>>
deckVars == <<deck, drawn, lastDraw>>
mainVars == <<pc, hand, ph, score, best>>
parseVars == <<rankTok, suitTok, parsed>>

(***************************************************************************)
(* Bounds of the model.                                                    *)
(***************************************************************************)
\* the hands of the straight specification are drawn from the clubs of the
\* ranks ace..NumLow and (14 - NumHigh)..king, and from the diamonds of the
\* NumSecond highest ranks
NumLow == 5
NumHigh == 4
NumSecond == 1
\* the hands of the n-of-a-kind specification are drawn from all four suits
\* of queen and king, and from the clubs and diamonds of the NumSide ranks
\* below the queen
NumSide == 1
\* the deck of the deck specification holds the first MaxDeck cards of the
\* 52 that Deck.__init__ builds
MaxDeck == 5
\* PokerHands is given hands of the ranks 2, queen and king in the first
\* NumPokerSuits suits
NumPokerSuits == 3
\* the integers 0..MaxInt are passed to Card as ranks
MaxInt == 11

HAND_SIZE == 5

(***************************************************************************)
(* classes/cards.py: Suit                                                  *)
(***************************************************************************)
NAMES == <<"clubs", "diamonds", "hearts", "spades">>
\* the four suit glyphs, each one character, written as its code point
SYMBOLS == <<"U+2663", "U+2666", "U+2665", "U+2660">>

Suits == 1..Len(NAMES)

\* Suit.__eq__: the symbols are compared
Suit_eq(s, t) == SYMBOLS[s] = SYMBOLS[t]

\* Suit.__lt__: position in NAMES
Suit_lt(s, t) == s < t

(***************************************************************************)
(* classes/cards.py: Rank.  A rank is identified by its position in RANKS  *)
(* (which is also its `order`); RANKS[r] is (value, order, proper name).   *)
(***************************************************************************)
RANKS == <<
    <<11, 1, "ace">>,
    <<2, 2, "2">>,
    <<3, 3, "3">>,
    <<4, 4, "4">>,
    <<5, 5, "5">>,
    <<6, 6, "6">>,
    <<7, 7, "7">>,
    <<8, 8, "8">>,
    <<9, 9, "9">>,
    <<10, 10, "10">>,
    <<10, 11, "jack">>,
    <<10, 12, "queen">>,
    <<10, 13, "king">> >>

Ranks == 1..Len(RANKS)

Rank_value(r) == RANKS[r][1]
Rank_order(r) == RANKS[r][2]
Rank_name(r) == RANKS[r][3]

\* Rank.__eq__: the proper names are compared
Rank_eq(r, q) == Rank_name(r) = Rank_name(q)

\* Rank.__lt__: the values are compared
Rank_lt(r, q) == Rank_value(r) < Rank_value(q)

(***************************************************************************)
(* classes/cards.py: Card                                                  *)
(***************************************************************************)
Card(r, s) == [rank |-> r, suit |-> s]

Universe == {Card(r, s) : r \in Ranks, s \in Suits}

\* Card.__eq__
Card_eq(a, b) == Rank_eq(a.rank, b.rank) /\ Suit_eq(a.suit, b.suit)

\* Card.__lt__
Card_lt(a, b) ==
    IF Rank_lt(a.rank, b.rank) THEN TRUE
    ELSE IF Rank_eq(a.rank, b.rank) THEN Suit_lt(a.suit, b.suit)
    ELSE FALSE

\* Card.__gt__ as functools.total_ordering derives it from __lt__ and __eq__:
\* (not a < b) and (a != b)
Card_gt(a, b) == ~Card_lt(a, b) /\ ~Card_eq(a, b)

(***************************************************************************)
(* Construction of a Card from the tokens passed in.  A Python str is the  *)
(* sequence of its characters, [type |-> "str", s |-> <<...>>]; an int is  *)
(* [type |-> "int", n |-> ...].                                            *)
(***************************************************************************)
LOWERCASE == <<"a", "b", "c", "d", "e", "f", "g", "h", "i", "j", "k", "l", "m",
               "n", "o", "p", "q", "r", "s", "t", "u", "v", "w", "x", "y", "z">>
UPPERCASE == <<"A", "B", "C", "D", "E", "F", "G", "H", "I", "J", "K", "L", "M",
               "N", "O", "P", "Q", "R", "S", "T", "U", "V", "W", "X", "Y", "Z">>
DIGITS == <<"0", "1", "2", "3", "4", "5", "6", "7", "8", "9">>

\* the characters of the string constants of the program
Letters(w) ==
    CASE w = "clubs" -> <<"c", "l", "u", "b", "s">>
      [] w = "diamonds" -> <<"d", "i", "a", "m", "o", "n", "d", "s">>
      [] w = "hearts" -> <<"h", "e", "a", "r", "t", "s">>
      [] w = "spades" -> <<"s", "p", "a", "d", "e", "s">>
      [] w = "ace" -> <<"a", "c", "e">>
      [] w = "jack" -> <<"j", "a", "c", "k">>
      [] w = "queen" -> <<"q", "u", "e", "e", "n">>
      [] w = "king" -> <<"k", "i", "n", "g">>
      [] w = "ACE" -> <<"A", "C", "E">>
      [] w = "JACK" -> <<"J", "A", "C", "K">>
      [] w = "QUEEN" -> <<"Q", "U", "E", "E", "N">>
      [] w = "KING" -> <<"K", "I", "N", "G">>
      [] w = "10" -> <<"1", "0">>
      [] OTHER -> <<w>>

\* the dotless i (U+0131), a lower-case letter whose upper case is "I"
DOTLESS_I == "U+0131"

UpperChar(c) ==
    IF c = DOTLESS_I THEN "I"
    ELSE IF \E i \in 1..Len(LOWERCASE) : LOWERCASE[i] = c
    THEN UPPERCASE[CHOOSE i \in 1..Len(LOWERCASE) : LOWERCASE[i] = c]
    ELSE c

LowerChar(c) ==
    IF \E i \in 1..Len(UPPERCASE) : UPPERCASE[i] = c
    THEN LOWERCASE[CHOOSE i \in 1..Len(UPPERCASE) : UPPERCASE[i] = c]
    ELSE c

\* str.upper() and str.lower()
upper(s) == [i \in 1..Len(s) |-> UpperChar(s[i])]
lower(s) == [i \in 1..Len(s) |-> LowerChar(s[i])]

\* str(x) for a str and for an int >= 0
RECURSIVE Decimal(_)
Decimal(n) ==
    IF n < 10 THEN <<DIGITS[n + 1]>>
    ELSE Append(Decimal(n \div 10), DIGITS[(n % 10) + 1])

str(x) == IF x.type = "str" THEN x.s ELSE Decimal(x.n)

\* the keys of the dict Rank.RANKS, in the order of RANKS
RANK_KEYS == <<"A", "2", "3", "4", "5", "6", "7", "8", "9", "10", "J", "Q", "K">>

BROADWAY_RANKS == [ACE |-> "A", JACK |-> "J", QUEEN |-> "Q", KING |-> "K"]

ValueError == [error |-> "ValueError"]
TypeError == [error |-> "TypeError"]

\* Rank.__init__ from `if self.rank in self.BROADWAY_RANKS` on
RankLookup(rank) ==
    LET shorthand ==
            IF \E k \in DOMAIN BROADWAY_RANKS : Letters(k) = rank
            THEN Letters(BROADWAY_RANKS[
                     CHOOSE k \in DOMAIN BROADWAY_RANKS : Letters(k) = rank])
            ELSE rank
        Found(i) == Letters(RANK_KEYS[i]) = shorthand
    IN IF ~\E i \in 1..Len(RANK_KEYS) : Found(i) THEN ValueError
       ELSE LET i == CHOOSE i \in 1..Len(RANK_KEYS) : Found(i)
            IN [rank |-> RANK_KEYS[i],
                value |-> RANKS[i][1],
                order |-> RANKS[i][2],
                name |-> RANKS[i][3]]

\* Rank.__init__ (given a str: Card passes str(rank))
\* the rank is looked up as written, without upper()
Rank_init_as_written(s) == RankLookup(s)

Rank_init(s) == RankLookup(upper(s))

\* Suit.__init__
Suit_init(x) ==
    IF x.type # "str" THEN TypeError
    ELSE LET suit == lower(x.s)
             InNames(i) == Letters(NAMES[i]) = suit
             InSymbols(i) == Letters(SYMBOLS[i]) = suit
         IN IF \E i \in 1..Len(NAMES) : InNames(i)
            THEN LET i == CHOOSE i \in 1..Len(NAMES) : InNames(i)
                 IN [suit |-> suit, name |-> NAMES[i], symbol |-> SYMBOLS[i]]
            ELSE IF \E i \in 1..Len(SYMBOLS) : InSymbols(i)
            THEN LET i == CHOOSE i \in 1..Len(SYMBOLS) : InSymbols(i)
                 IN [suit |-> suit, name |-> NAMES[i], symbol |-> SYMBOLS[i]]
            ELSE ValueError

\* Card.__init__: Rank(str(rank)), then Suit(suit)
Card_init(rank, suit) ==
    LET r == Rank_init(str(rank))
    IN IF r = ValueError THEN r
       ELSE LET s == Suit_init(suit)
            IN IF s \in {ValueError, TypeError} THEN s
               ELSE [rank |-> r, suit |-> s]

(***************************************************************************)
(* Python built-ins the evaluator relies on.                               *)
(***************************************************************************)
\* max(iterable): keeps the first item and replaces it by every later item
\* that compares greater than the current maximum
RECURSIVE MaxFrom(_, _, _)
MaxFrom(s, i, m) ==
    IF i > Len(s) THEN m
    ELSE MaxFrom(s, i + 1, IF Card_gt(s[i], m) THEN s[i] ELSE m)

max(s) == MaxFrom(s, 2, s[1])

\* sorted(): a stable sort by the `<` of the keys; an element is placed
\* behind every element whose key is smaller and behind every earlier
\* element whose key is not greater
sorted(s, lt(_, _)) ==
    LET pos(i) == 1 + Cardinality({j \in 1..Len(s) :
                        \/ lt(s[j], s[i])
                        \/ j < i /\ ~lt(s[i], s[j])})
    IN [k \in 1..Len(s) |-> s[CHOOSE i \in 1..Len(s) : pos(i) = k]]

\* itertools.combinations(s, n): the n-element subsequences of s in
\* lexicographic order of their positions
RECURSIVE combinations(_, _)
combinations(s, n) ==
    IF n = 0 THEN << <<>> >>
    ELSE IF Len(s) < n THEN <<>>
    ELSE LET withHead == combinations(Tail(s), n - 1)
         IN [i \in 1..Len(withHead) |-> <<Head(s)>> \o withHead[i]]
            \o combinations(Tail(s), n)

\* a list comprehension with a condition
Filter(s, keep(_)) ==
    LET F[i \in 0..Len(s)] ==
            IF i = 0 THEN <<>>
            ELSE IF keep(s[i]) THEN Append(F[i - 1], s[i]) ELSE F[i - 1]
    IN F[Len(s)]

\* collections.Counter over the ranks of the cards: the keys, in the order
\* of their first occurrence (keys are equal when Rank.__eq__ says so)
RECURSIVE CounterKeys(_)
CounterKeys(s) ==
    IF s = <<>> THEN <<>>
    ELSE LET before == CounterKeys(SubSeq(s, 1, Len(s) - 1))
             r == s[Len(s)].rank
         IN IF \E i \in 1..Len(before) : Rank_eq(before[i], r)
            THEN before ELSE Append(before, r)

CounterCount(s, r) == Cardinality({i \in 1..Len(s) : Rank_eq(s[i].rank, r)})

Range(s) == {s[i] : i \in 1..Len(s)}

(***************************************************************************)
(* engine.py                                                               *)
(***************************************************************************)
OrderLt(a, b) == Rank_order(a.rank) < Rank_order(b.rank)

\* key=lambda c: (c.rank.value, c.rank.order)
ValueOrderLt(a, b) ==
    \/ Rank_value(a.rank) < Rank_value(b.rank)
    \/ /\ Rank_value(a.rank) = Rank_value(b.rank)
       /\ Rank_order(a.rank) < Rank_order(b.rank)

\* key=lambda c: (c.rank.value, c.rank.order, c.suit)
ValueOrderSuitLt(a, b) ==
    \/ Rank_value(a.rank) < Rank_value(b.rank)
    \/ /\ Rank_value(a.rank) = Rank_value(b.rank)
       /\ Rank_order(a.rank) < Rank_order(b.rank)
    \/ /\ Rank_value(a.rank) = Rank_value(b.rank)
       /\ Rank_order(a.rank) = Rank_order(b.rank)
       /\ ~Suit_eq(a.suit, b.suit)
       /\ Suit_lt(a.suit, b.suit)

\* key=lambda c: c.rank
RankKeyLt(a, b) == Rank_lt(a.rank, b.rank)

IntLt(x, y) == x < y

SortedOrders(cs) == sorted([i \in 1..Len(cs) |-> Rank_order(cs[i].rank)], IntLt)

\* the ace counted as 14: the ace-high pattern is then never recognised
is_high_straight_ace14(cs) == SortedOrders(cs) = <<10, 11, 12, 13, 14>>

is_high_straight(cs) == SortedOrders(cs) = <<1, 10, 11, 12, 13>>

\* `count > n` in place of `count >= n`
EnoughOfRankStrict(count, n) == count > n

\* find_matching_ranks: `if count >= n`
EnoughOfRank(count, n) == count >= n

RECURSIVE MatchingCombos(_, _, _)
MatchingCombos(cs, keys, n) ==
    IF keys = <<>> THEN <<>>
    ELSE LET card_rank == Head(keys)
             SameRank(c) == Rank_eq(c.rank, card_rank)
             ranks_in_hand == Filter(cs, SameRank)
         IN (IF EnoughOfRank(CounterCount(cs, card_rank), n)
             THEN combinations(ranks_in_hand, n) ELSE <<>>)
            \o MatchingCombos(cs, Tail(keys), n)

find_matching_ranks(cs, n) ==
    LET combos == MatchingCombos(cs, CounterKeys(cs), n)
    IN IF combos # <<>> /\ n = 4 THEN combos[1] ELSE combos

\* every combination of two pairs is kept, sharing a card or not
find_two_pairs_overlapping(pairs) ==
    LET both == combinations(pairs, 2)
    IN [i \in 1..Len(both) |-> both[i][1] \o both[i][2]]

find_two_pairs(pairs) ==
    LET both == combinations(pairs, 2)
        Unique(pp) == Range(pp[1]) \cap Range(pp[2]) = {}
        kept == Filter(both, Unique)
    IN [i \in 1..Len(kept) |-> kept[i][1] \o kept[i][2]]

find_straight(cs) ==
    IF is_high_straight(cs) THEN sorted(cs, ValueOrderLt)
    ELSE LET ordered_ranks == SortedOrders(cs)
         IN IF \E i \in 1..(Len(ordered_ranks) - 1) :
                   ordered_ranks[i] + 1 # ordered_ranks[i + 1]
            THEN <<>>
            ELSE sorted(cs, OrderLt)

find_flush(cs) ==
    IF Cardinality({cs[i].suit : i \in 1..Len(cs)}) = 1 THEN cs ELSE <<>>

find_full_house(cs) ==
    LET keys == CounterKeys(cs)
        counts == sorted([i \in 1..Len(keys) |-> CounterCount(cs, keys[i])], IntLt)
    IN IF Len(keys) = 2 /\ counts = <<2, 3>>
       THEN sorted(cs, RankKeyLt)
       ELSE <<>>

find_hands(cs) ==
    LET pairs == find_matching_ranks(cs, 2)
        straight == find_straight(cs)
        flush == find_flush(cs)
        straight_flush ==
            IF straight # <<>> /\ flush # <<>>
            THEN sorted(cs, ValueOrderSuitLt) ELSE <<>>
        royal_flush ==
            IF straight_flush # <<>> /\ is_high_straight(cs)
            THEN sorted(cs, ValueOrderSuitLt) ELSE <<>>
    IN [high_card |-> max(cs),
        pairs |-> pairs,
        two_pairs |-> find_two_pairs(pairs),
        toaks |-> find_matching_ranks(cs, 3),
        straight |-> straight,
        flush |-> flush,
        foaks |-> find_matching_ranks(cs, 4),
        straight_flush |-> straight_flush,
        full_house |-> find_full_house(cs),
        royal_flush |-> royal_flush]

NoReport == [none |-> TRUE]

(***************************************************************************)
(* The evaluator applied to a hand of five distinct cards.                 *)
(***************************************************************************)
Hands(U) ==
    {s \in [1..HAND_SIZE -> U] :
        \A i, j \in 1..HAND_SIZE : i < j => s[i] # s[j]}

StraightUniverse ==
    {c \in Universe :
        \/ c.suit = 1 /\ (c.rank <= NumLow \/ c.rank > 13 - NumHigh)
        \/ c.suit = 2 /\ c.rank > 13 - NumSecond}

KindUniverse ==
    {c \in Universe :
        \/ c.rank >= 12
        \/ c.suit <= 2 /\ c.rank < 12 /\ c.rank >= 12 - NumSide}

CmpIdle == cmpA = NoReport /\ cmpB = NoReport /\ cmpRes = NoReport
DeckIdle == deck = <<>> /\ drawn = <<>> /\ lastDraw = NoReport
MainIdle ==
    pc = "idle" /\ hand = <<>> /\ ph = NoReport /\ score = 0 /\ best = "none"
EvalIdle == cards = <<>> /\ report = NoReport
ParseIdle == rankTok = NoReport /\ suitTok = NoReport /\ parsed = NoReport

InitStraight ==
    /\ cards \in Hands(StraightUniverse)
    /\ report = NoReport
    /\ CmpIdle /\ DeckIdle /\ MainIdle /\ ParseIdle

InitKind ==
    /\ cards \in Hands(KindUniverse)
    /\ report = NoReport
    /\ CmpIdle /\ DeckIdle /\ MainIdle /\ ParseIdle

\* engine.find_hands(cards)
FindHands ==
    /\ Len(cards) = HAND_SIZE
    /\ report = NoReport
    /\ report' = find_hands(cards)
    /\ UNCHANGED <<cards, cmpVars, deckVars, mainVars, parseVars>>

NextEval == FindHands

SpecStraight == InitStraight /\ [][NextEval]_vars
SpecKind == InitKind /\ [][NextEval]_vars

(***************************************************************************)
(* Card construction, applied to a rank token and a suit token.            *)
(***************************************************************************)
PyStr(chars) == [type |-> "str", s |-> chars]
PyInt(n) == [type |-> "int", n |-> n]

\* a word in every mix of upper and lower case
RECURSIVE CaseVariants(_)
CaseVariants(w) ==
    IF w = <<>> THEN {<<>>}
    ELSE {<<c>> \o rest : c \in {LowerChar(Head(w)), UpperChar(Head(w))},
                          rest \in CaseVariants(Tail(w))}

\* the rank tokens tried: the keys and the names of RANKS in every case,
\* the integers 0..MaxInt, and some other words
RankTokens ==
    {PyStr(s) : s \in UNION {CaseVariants(Letters(RANK_KEYS[r]))
                               \cup CaseVariants(Letters(RANKS[r][3])) : r \in Ranks}}
    \cup {PyInt(n) : n \in 0..MaxInt}
    \cup {PyStr(s) : s \in {<<>>, <<"0">>, <<"1">>, <<"1", "1">>, <<"t">>, <<"T">>,
                           <<"t", "e", "n">>, <<"t", "w", "o">>,
                           <<"a", "c", "e", "s">>, <<"k", "i", "n">>,
                           <<" ", "a">>, <<"K", " ">>, <<"A", "K">>,
                           <<"j", "o", "k", "e", "r">>,
                           <<"U+2663">>,
                           <<"k", DOTLESS_I, "n", "g">>,
                           <<"K", DOTLESS_I, "N", "g">>}}

\* the suit tokens tried: the names in every case, the glyphs, an integer
\* and some other words
SuitTokens ==
    {PyStr(s) : s \in UNION {CaseVariants(Letters(NAMES[i])) : i \in Suits}}
    \cup {PyStr(Letters(SYMBOLS[i])) : i \in Suits}
    \cup {PyInt(1)}
    \cup {PyStr(s) : s \in {<<>>, <<"c">>, <<"d">>, <<"h">>, <<"s">>, <<"C">>,
                           <<"c", "l", "u", "b">>, <<"S", "p", "a", "d", "e">>,
                           <<"h", "e", "a", "r", "t">>,
                           <<"c", "l", "u", "b", "s", " ">>,
                           <<"U+2663", "U+2663">>, <<"U+2661">>, <<"A">>,
                           <<"d", DOTLESS_I, "a", "m", "o", "n", "d", "s">>}}

InitParse ==
    /\ rankTok \in RankTokens
    /\ suitTok \in SuitTokens
    /\ parsed = NoReport
    /\ EvalIdle /\ CmpIdle /\ DeckIdle /\ MainIdle

\* Card(rank=rankTok, suit=suitTok)
NewCard ==
    /\ parsed = NoReport
    /\ parsed' = Card_init(rankTok, suitTok)
    /\ UNCHANGED <<rankTok, suitTok, evalVars, cmpVars, deckVars, mainVars>>

NextParse == NewCard

SpecParse == InitParse /\ [][NextParse]_vars

(***************************************************************************)
(* Card comparison, applied to two cards of the 52.                        *)
(***************************************************************************)
InitCmp ==
    /\ cmpA \in Universe
    /\ cmpB \in Universe
    /\ cmpRes = NoReport
    /\ EvalIdle /\ DeckIdle /\ MainIdle /\ ParseIdle

\* a == b, a < b, b < a, a > b, b > a
Compare ==
    /\ cmpRes = NoReport
    /\ cmpRes' = [eq |-> Card_eq(cmpA, cmpB),
                  lt |-> Card_lt(cmpA, cmpB),
                  tl |-> Card_lt(cmpB, cmpA),
                  gt |-> Card_gt(cmpA, cmpB),
                  tg |-> Card_gt(cmpB, cmpA)]
    /\ UNCHANGED <<cmpA, cmpB, evalVars, deckVars, mainVars, parseVars>>

NextCmp == Compare

SpecCmp == InitCmp /\ [][NextCmp]_vars

(***************************************************************************)
(* classes/cards.py: Deck                                                  *)
(***************************************************************************)
\* itertools.product(Rank.RANKS, Suit.NAMES): the ranks in the order of
\* RANKS, and for each rank the suits in the order of NAMES
product ==
    [k \in 1..(Len(RANKS) * Len(NAMES)) |->
        Card(((k - 1) \div Len(NAMES)) + 1, ((k - 1) % Len(NAMES)) + 1)]

\* Deck.__init__, cut to the first MaxDeck cards
NewDeck == SubSeq(product, 1, MaxDeck)

\* the orders random.shuffle may leave the list in
Shuffles(s) ==
    {[i \in 1..Len(s) |-> s[f[i]]] : f \in Permutations(1..Len(s))}

\* len(cards[:n]): a negative n counts from the end
SliceLen(len, n) ==
    IF n < 0 THEN (IF len + n > 0 THEN len + n ELSE 0)
    ELSE IF n < len THEN n ELSE len

\* a draw that keeps the drawn cards in the deck
DeckDrawKeeping(n, op) ==
    /\ lastDraw' = [op |-> op, n |-> n, raised |-> n > Len(deck),
                    returned |-> IF n > Len(deck) THEN <<>>
                                 ELSE SubSeq(deck, 1, SliceLen(Len(deck), n))]
    /\ deck' = deck
    /\ drawn' = drawn \o lastDraw'.returned

\* a draw without the size check: the slice yields what is left
DeckDrawUnchecked(n, op) ==
    LET k == SliceLen(Len(deck), n)
    IN /\ lastDraw' = [op |-> op, n |-> n, raised |-> FALSE,
                       returned |-> SubSeq(deck, 1, k)]
       /\ deck' = SubSeq(deck, k + 1, Len(deck))
       /\ drawn' = drawn \o SubSeq(deck, 1, k)

\* Deck.draw(n); `raised` tells whether it raised ValueError
DeckDraw(n, op) ==
    IF n > Len(deck)
    THEN /\ lastDraw' = [op |-> op, n |-> n, raised |-> TRUE, returned |-> <<>>]
         /\ UNCHANGED <<deck, drawn>>
    ELSE LET k == SliceLen(Len(deck), n)
         IN /\ lastDraw' = [op |-> op, n |-> n, raised |-> FALSE,
                            returned |-> SubSeq(deck, 1, k)]
            /\ deck' = SubSeq(deck, k + 1, Len(deck))
            /\ drawn' = drawn \o SubSeq(deck, 1, k)

NewRecord == [op |-> "new", n |-> 0, raised |-> FALSE, returned |-> <<>>]
ShuffleRecord == [op |-> "shuffle", n |-> 0, raised |-> FALSE, returned |-> <<>>]

InitDeck ==
    /\ deck = NewDeck
    /\ drawn = <<>>
    /\ lastDraw = NewRecord
    /\ EvalIdle /\ CmpIdle /\ MainIdle /\ ParseIdle

\* Deck.shuffle()
Shuffle ==
    /\ deck' \in Shuffles(deck)
    /\ lastDraw' = ShuffleRecord
    /\ UNCHANGED <<drawn, evalVars, cmpVars, mainVars, parseVars>>

\* Deck.draw(n)
Draw ==
    /\ \E n \in -1..(MaxDeck + 1) : DeckDraw(n, "draw")
    /\ UNCHANGED <<evalVars, cmpVars, mainVars, parseVars>>

\* Deck.draw_hand()
DrawHand ==
    /\ DeckDraw(HAND_SIZE, "draw_hand")
    /\ UNCHANGED <<evalVars, cmpVars, mainVars, parseVars>>

NextDeck == Shuffle \/ Draw \/ DrawHand

SpecDeck == InitDeck /\ [][NextDeck]_vars

(***************************************************************************)
(* classes.py: Card, Deck and PokerHands.  A card is the same (rank, suit) *)
(* record as above, its rank standing for "ace", 2..10, "jack", "queen",   *)
(* "king" in this order.                                                   *)
(***************************************************************************)
\* Card.cardinality: aces first, the numbers in their order, then jack,
\* queen, king
cardinality(c) == c.rank

CardinalityLt(a, b) == cardinality(a) < cardinality(b)

\* Card.value: the number; 10 for faces; 11 for aces
PH_value(c) == IF c.rank = 1 THEN 11 ELSE IF c.rank > 10 THEN 10 ELSE c.rank

\* PokerHands._find_high_card: max() with the key (value, cardinality)
\* returns the first card whose key no other card exceeds
find_high_card(cs) ==
    LET KeyLt(a, b) ==
            \/ PH_value(a) < PH_value(b)
            \/ PH_value(a) = PH_value(b) /\ cardinality(a) < cardinality(b)
        top == {i \in 1..Len(cs) : \A j \in 1..Len(cs) : ~KeyLt(cs[i], cs[j])}
    IN cs[CHOOSE i \in top : \A j \in top : i <= j]

\* Card.__eq__ of classes.py
PH_Card_eq(a, b) == a.rank = b.rank /\ a.suit = b.suit

\* PokerHands._all_are_distinct: i and j both run from the first card on
all_are_distinct(cs) ==
    \A i \in 1..(Len(cs) - 1) : \A j \in 1..Len(cs) :
        ~PH_Card_eq(cs[i], cs[j])

all_are_equal_rank(cs) == \A i \in 1..Len(cs) : cs[i].rank = cs[1].rank

all_are_equal_suit(cs) == \A i \in 1..Len(cs) : cs[i].suit = cs[1].suit

all_are_in_cardinal_order(cs) ==
    \A i \in 1..(Len(cs) - 1) : cardinality(cs[i]) + 1 = cardinality(cs[i + 1])

\* PokerHands._find_n_of_a_kind: a window of n cards slides over the
\* sorted cards
find_n_of_a_kind(sorted_cards, n) ==
    LET Hit(i) == all_are_equal_rank(SubSeq(sorted_cards, i, i + n - 1))
        starts == Filter([i \in 1..(Len(sorted_cards) - n + 1) |-> i], Hit)
    IN [k \in 1..Len(starts) |-> SubSeq(sorted_cards, starts[k], starts[k] + n - 1)]

\* PokerHands._find_full_houses
find_full_houses(pairs, three_of_a_kinds) ==
    IF three_of_a_kinds = <<>> THEN <<>>
    ELSE LET both == [k \in 1..(Len(pairs) * Len(three_of_a_kinds)) |->
                        pairs[((k - 1) \div Len(three_of_a_kinds)) + 1]
                        \o three_of_a_kinds[((k - 1) % Len(three_of_a_kinds)) + 1]]
         IN Filter(both, all_are_distinct)

\* PokerHands._is_a_high_straight
is_a_high_straight(sorted_cards) ==
    \A i \in 1..Len(sorted_cards) :
        sorted_cards[i].rank = <<1, 10, 11, 12, 13>>[i]

\* the if/elif chain of PokerHands._find_hands
ScoreOf(p) ==
    IF p.royal_flushes # <<>> THEN 9
    ELSE IF p.straight_flushes # <<>> THEN 8
    ELSE IF p.four_of_a_kinds # <<>> THEN 7
    ELSE IF p.full_houses # <<>> THEN 6
    ELSE IF p.flushes # <<>> THEN 5
    ELSE IF p.straights # <<>> THEN 4
    ELSE IF p.three_of_a_kinds # <<>> THEN 3
    ELSE IF p.pairs # <<>> THEN 2
    ELSE 1

\* PokerHands.__init__ and _find_hands
PokerHands(cs) ==
    LET sorted_cards == sorted(cs, CardinalityLt)
        pairs == find_n_of_a_kind(sorted_cards, 2)
        three_of_a_kinds == find_n_of_a_kind(sorted_cards, 3)
        flushes == IF all_are_equal_suit(cs) THEN <<sorted_cards>> ELSE <<>>
        straights ==
            IF is_a_high_straight(sorted_cards)
               \/ all_are_in_cardinal_order(sorted_cards)
            THEN <<sorted_cards>> ELSE <<>>
        high ==
            is_a_high_straight(sorted_cards)
        straight_flushes ==
            IF straights # <<>> /\ flushes # <<>> /\ ~high
            THEN <<sorted_cards>> ELSE <<>>
        royal_flushes ==
            IF high /\ flushes # <<>> THEN <<sorted_cards>> ELSE <<>>
        found ==
            [cards |-> cs,
             sorted_cards |-> sorted_cards,
             high_card |-> find_high_card(cs),
             pairs |-> pairs,
             three_of_a_kinds |-> three_of_a_kinds,
             full_houses |-> find_full_houses(pairs, three_of_a_kinds),
             four_of_a_kinds |-> find_n_of_a_kind(sorted_cards, 4),
             straights |-> straights,
             flushes |-> flushes,
             straight_flushes |-> straight_flushes,
             royal_flushes |-> royal_flushes]
    IN [f \in DOMAIN found \cup {"score"} |->
            IF f = "score" THEN ScoreOf(found) ELSE found[f]]

\* PokerHands.show_best_hand: the category it prints
show_best_hand(p) ==
    IF p.royal_flushes # <<>> THEN "Royal Flush"
    ELSE IF p.straight_flushes # <<>> THEN "Straight Flush"
    ELSE IF p.four_of_a_kinds # <<>> THEN "Four of a kind"
    ELSE IF p.full_houses # <<>> THEN "Full house"
    ELSE IF p.flushes # <<>> THEN "Flush"
    ELSE IF p.straights # <<>> THEN "Straight"
    ELSE IF p.three_of_a_kinds # <<>> THEN "Three of a kind"
    ELSE IF p.pairs # <<>> THEN "Pair"
    ELSE "High card"

PokerUniverse ==
    {c \in Universe : c.rank \in {2, 12, 13} /\ c.suit <= NumPokerSuits}

InitPokerHands ==
    /\ hand \in Hands(PokerUniverse)
    /\ pc = "idle"
    /\ ph = NoReport
    /\ score = 0
    /\ best = "none"
    /\ EvalIdle /\ CmpIdle /\ DeckIdle /\ ParseIdle

\* hand = PokerHands(cards=...)
Construct ==
    /\ ph = NoReport
    /\ Len(hand) = HAND_SIZE
    /\ ph' = PokerHands(hand)
    /\ score' = ph'.score
    /\ UNCHANGED <<pc, hand, best, evalVars, cmpVars, deckVars, parseVars>>

\* hand.show_best_hand()
ShowBestHand ==
    /\ ph # NoReport
    /\ best = "none"
    /\ best' = show_best_hand(ph)
    /\ UNCHANGED <<pc, hand, ph, score, evalVars, cmpVars, deckVars, parseVars>>

NextPokerHands == Construct \/ ShowBestHand

SpecPokerHands == InitPokerHands /\ [][NextPokerHands]_vars

(***************************************************************************)
(* main.py                                                                 *)
(***************************************************************************)
\* the deck of the driver: the kings of PokerUniverse, two queens and a 2
MainUniverse ==
    {c \in PokerUniverse :
        \/ c.rank = 13
        \/ c.rank = 12 /\ c.suit <= 2
        \/ c.rank = 2 /\ c.suit = 1}

\* Deck(), shuffle() and deal(n=5) of classes.py: the first five cards of
\* some order of the deck, which is any five distinct cards in any order
Deals == Hands(MainUniverse)

InitMain ==
    /\ pc = "loop"
    /\ hand = <<>>
    /\ ph = NoReport
    /\ score = 0
    /\ best = "none"
    /\ EvalIdle /\ CmpIdle /\ DeckIdle /\ ParseIdle

\* one pass of `while score != 6`
Iterate ==
    /\ pc = "loop"
    /\ score # 6
    /\ hand' \in Deals
    /\ ph' = PokerHands(hand')
    /\ score' = ph'.score
    /\ best' = IF score' = 6 THEN show_best_hand(ph') ELSE best
    /\ pc' = IF score' = 6 THEN "done" ELSE "loop"
    /\ UNCHANGED <<evalVars, cmpVars, deckVars, parseVars>>

NextMain == Iterate

SpecMain == InitMain /\ [][NextMain]_vars

(***************************************************************************)
(* What a hand is, stated on the hand as a set of (rank, suit) pairs.      *)
(***************************************************************************)
Evaluated == report # NoReport

RankSet(cs) == {cs[i].rank : i \in 1..Len(cs)}
SuitSet(cs) == {cs[i].suit : i \in 1..Len(cs)}
CardsOfRank(cs, r) == {c \in Range(cs) : c.rank = r}
RankCounts(cs) == {Cardinality(CardsOfRank(cs, r)) : r \in RankSet(cs)}

AceHighRanks == {1, 10, 11, 12, 13}
IsAceHigh(cs) == Cardinality(RankSet(cs)) = 5 /\ RankSet(cs) = AceHighRanks
IsConsecutive(cs) == \E lo \in 1..9 : RankSet(cs) = lo..(lo + 4)
IsStraight(cs) == IsAceHigh(cs) \/ IsConsecutive(cs)
IsFlush(cs) == Cardinality(SuitSet(cs)) = 1
IsFullHouse(cs) == Cardinality(RankSet(cs)) = 2 /\ RankCounts(cs) = {2, 3}

\* (value, order) of a is lexicographically below (value, order) of b
BelowByValueOrder(a, b) ==
    \/ RANKS[a.rank][1] < RANKS[b.rank][1]
    \/ RANKS[a.rank][1] = RANKS[b.rank][1] /\ RANKS[a.rank][2] < RANKS[b.rank][2]

RanksOf(cs) == [i \in 1..Len(cs) |-> cs[i].rank]

\* C5: a == b iff rank and suit match; exactly one of a < b, a == b, b < a
\* holds; a > b and b > a are never both true; between cards of one rank the
\* suit order decides.
C5_CardOrderIsTotal ==
    cmpRes # NoReport =>
        /\ cmpRes.eq <=> (cmpA.rank = cmpB.rank /\ cmpA.suit = cmpB.suit)
        /\ \/ cmpRes.lt /\ ~cmpRes.eq /\ ~cmpRes.tl
           \/ ~cmpRes.lt /\ cmpRes.eq /\ ~cmpRes.tl
           \/ ~cmpRes.lt /\ ~cmpRes.eq /\ cmpRes.tl
        /\ ~(cmpRes.gt /\ cmpRes.tg)
        /\ cmpA.rank = cmpB.rank => (cmpRes.lt <=> cmpA.suit < cmpB.suit)

NoDuplicates(s) == \A i, j \in 1..Len(s) : i # j => s[i] # s[j]

DeckConserved ==
    /\ Len(product) = Cardinality(Universe)
    /\ Range(product) = Universe
    /\ lastDraw.op = "new" => deck = NewDeck
    /\ NoDuplicates(deck)
    /\ Range(deck) \subseteq Universe
    /\ Range(deck) \cap Range(drawn) = {}
    /\ Range(deck) \cup Range(drawn) = Range(NewDeck)
    /\ Len(deck) + Len(drawn) = Len(NewDeck)

DeckStepConserves ==
    /\ lastDraw'.op = "shuffle" =>
          /\ Range(deck') = Range(deck)
          /\ Len(deck') = Len(deck)
          /\ drawn' = drawn
    /\ (lastDraw'.op \in {"draw", "draw_hand"} /\ ~lastDraw'.raised
          /\ lastDraw'.n >= 0) =>
          /\ Len(deck') = Len(deck) - lastDraw'.n
          /\ Len(lastDraw'.returned) = lastDraw'.n
          /\ Range(lastDraw'.returned) \cap Range(deck') = {}

\* C6: a fresh deck holds every (rank, suit) pair once; after any shuffles
\* and draws the deck has no duplicate, and the deck and the drawn cards
\* partition the cards of the fresh deck; shuffle changes only the order and
\* a successful draw(n), 0 <= n <= size, lowers the size by exactly n.
C6_DeckConservation == []DeckConserved /\ [][DeckStepConserves]_vars

\* cards were drawn, the rest was shuffled out of its built order, and more
\* cards are left
C6_Witness ==
    /\ lastDraw.op = "shuffle"
    /\ Len(drawn) = 2
    /\ Len(deck) = MaxDeck - 2
    /\ deck # SubSeq(NewDeck, 3, MaxDeck)

\* C7: draw(n) with n > size raises ValueError, returns no card and leaves
\* the deck as it was; draw(n) with n <= size does not raise.
C7_FailedDrawLeavesDeck ==
    [][lastDraw'.op \in {"draw", "draw_hand"} =>
          /\ lastDraw'.raised <=> lastDraw'.n > Len(deck)
          /\ lastDraw'.n > Len(deck) =>
                /\ lastDraw'.returned = <<>>
                /\ deck' = deck
                /\ drawn' = drawn]_vars

\* a draw of more cards than are left has failed on a partly drawn deck
C7_Witness ==
    /\ lastDraw.op = "draw"
    /\ lastDraw.raised
    /\ lastDraw.n = Len(deck) + 1
    /\ Len(deck) > 0
    /\ Len(drawn) > 0

HasCount(cs, n) == \E r \in RankSet(cs) : Cardinality(CardsOfRank(cs, r)) >= n
IsTwoPair(cs) ==
    \E r, q \in RankSet(cs) :
        /\ r # q
        /\ Cardinality(CardsOfRank(cs, r)) >= 2
        /\ Cardinality(CardsOfRank(cs, q)) >= 2

\* the highest category of the fixed order that the hand realizes
BestCategory(cs) ==
    IF IsFlush(cs) /\ IsAceHigh(cs) THEN "Royal Flush"
    ELSE IF IsFlush(cs) /\ IsStraight(cs) THEN "Straight Flush"
    ELSE IF HasCount(cs, 4) THEN "Four of a kind"
    ELSE IF IsFullHouse(cs) THEN "Full house"
    ELSE IF IsFlush(cs) THEN "Flush"
    ELSE IF IsStraight(cs) THEN "Straight"
    ELSE IF HasCount(cs, 3) THEN "Three of a kind"
    ELSE IF IsTwoPair(cs) THEN "Two Pair"
    ELSE IF HasCount(cs, 2) THEN "Pair"
    ELSE "High card"

\* C1: the best category of a hand is the highest category of the order
\* High Card < Pair < Two Pair < ... < Royal Flush that the hand realizes;
\* two pairs of different ranks and nothing better give Two Pair.
C1_BestIsHighestRealized ==
    best # "none" => best = BestCategory(hand)

\* C4: a dealt hand of three cards of one rank and two of another gets
\* score 6, and the driver loop stops in that pass.
C4_FullHouseStopsLoop ==
    (pc \in {"loop", "done"} /\ hand # <<>> /\ IsFullHouse(hand))
        => (score = 6 /\ pc = "done")

\* C2: 'straight flush' is non-empty iff the hand is a straight and a flush
\* and not the ace-high straight; 'royal flush' is non-empty iff the hand is
\* a flush of exactly 10, J, Q, K, A; the two are never both non-empty.
C2_StraightFlushExcludesRoyal ==
    Evaluated =>
        /\ report.straight_flush # <<>>
              <=> (IsStraight(cards) /\ IsFlush(cards) /\ ~IsAceHigh(cards))
        /\ report.royal_flush # <<>> <=> (IsFlush(cards) /\ IsAceHigh(cards))
        /\ ~(report.straight_flush # <<>> /\ report.royal_flush # <<>>)

\* C3: the 'high card' is a card of the hand that no other card of the hand
\* exceeds in (value, order), compared lexicographically.
C3_HighCardMaximizesValueOrder ==
    Evaluated =>
        /\ report.high_card \in Range(cards)
        /\ \A c \in Range(cards) : ~BelowByValueOrder(report.high_card, c)

\* C8: find_full_house is non-empty iff exactly two ranks are present with
\* counts 2 and 3; when non-empty it is the five cards of the hand with the
\* cards of one rank adjacent, the lower rank first.
C8_FullHouseSortedByRank ==
    Evaluated =>
        /\ report.full_house # <<>> <=> IsFullHouse(cards)
        /\ report.full_house # <<>> =>
              /\ Len(report.full_house) = HAND_SIZE
              /\ Range(report.full_house) = Range(cards)
              /\ \A i, j, k \in 1..HAND_SIZE :
                    (i < j /\ j < k
                       /\ report.full_house[i].rank = report.full_house[k].rank)
                    => report.full_house[j].rank = report.full_house[i].rank
              /\ \A i \in 1..(HAND_SIZE - 1) :
                    RANKS[report.full_house[i].rank][1]
                        <= RANKS[report.full_house[i + 1].rank][1]

\* C9: find_straight is non-empty iff the rank orders are five consecutive
\* integers or exactly {1,10,11,12,13}; the ace-high straight is reported
\* as 10, J, Q, K, A and every other straight in ascending order.
C9_StraightIffConsecutiveOrAceHigh ==
    Evaluated =>
        /\ report.straight # <<>> <=> IsStraight(cards)
        /\ report.straight # <<>> =>
              /\ Len(report.straight) = HAND_SIZE
              /\ Range(report.straight) = Range(cards)
        /\ IsAceHigh(cards) => RanksOf(report.straight) = <<10, 11, 12, 13, 1>>
        /\ (report.straight # <<>> /\ ~IsAceHigh(cards)) =>
              \A i \in 1..(HAND_SIZE - 1) :
                  report.straight[i].rank + 1 = report.straight[i + 1].rank

\* an ace-high straight that is no flush has been reported, ace last
C9_Witness ==
    /\ Evaluated
    /\ IsAceHigh(cards) /\ ~IsFlush(cards)
    /\ report.straight # <<>>
    /\ report.straight[HAND_SIZE].rank = 1

\* the subsets of n cards of the hand that share a rank
SameRankSubsets(cs, n) ==
    {S \in SUBSET Range(cs) :
        Cardinality(S) = n /\ \A a, b \in S : a.rank = b.rank}

Binomial(c, n) ==
    IF n > c THEN 0
    ELSE IF n = 2 THEN (c * (c - 1)) \div 2
    ELSE IF n = 3 THEN (c * (c - 1) * (c - 2)) \div 6
    ELSE 1

ExactlyTheCombinations(cs, found, n) ==
    /\ \A i \in 1..Len(found) : Len(found[i]) = n
    /\ {Range(found[i]) : i \in 1..Len(found)} = SameRankSubsets(cs, n)
    /\ \A i, j \in 1..Len(found) : i # j => Range(found[i]) # Range(found[j])
    /\ \A r \in Ranks :
          Cardinality({i \in 1..Len(found) : found[i][1].rank = r})
              = Binomial(Cardinality(CardsOfRank(cs, r)), n)

HalvesOf(tp) == {Range(SubSeq(tp, 1, 2)), Range(SubSeq(tp, 3, 4))}

\* the positions i < j of the pairs list whose pairs share no card
DisjointPairs(pairs) ==
    {ij \in (1..Len(pairs)) \X (1..Len(pairs)) :
        /\ ij[1] < ij[2]
        /\ Range(pairs[ij[1]]) \cap Range(pairs[ij[2]]) = {}}

C14_FourOfAKindIsNoTwoPair ==
    (Evaluated /\ HasCount(cards, 4)) => report.two_pairs = <<>>

\* the cards of a hand listed in one fixed order, by rank order and suit
CanonicalLt(a, b) ==
    \/ RANKS[a.rank][2] < RANKS[b.rank][2]
    \/ a.rank = b.rank /\ a.suit < b.suit

Canonical(cs) == sorted(cs, CanonicalLt)

IsSortedBy(s, lt(_, _)) == \A i \in 1..(Len(s) - 1) : ~lt(s[i + 1], s[i])

\* C12: find_flush is non-empty iff the five cards share one suit; when
\* non-empty it is the hand in sorted order, the same tuple for every order
\* in which the cards are passed.
C12_FlushIsTheSortedHand ==
    Evaluated =>
        /\ report.flush # <<>> <=> IsFlush(cards)
        /\ report.flush # <<>> =>
              /\ Range(report.flush) = Range(cards)
              /\ report.flush = find_flush(Canonical(cards))
              /\ \/ IsSortedBy(report.flush, CanonicalLt)
                 \/ IsSortedBy(report.flush, ValueOrderSuitLt)

\* C15: the report of find_hands is the same for every order in which the
\* five cards are passed: it is the report of the hand listed in the fixed
\* order.
C15_ReportIgnoresInputOrder ==
    Evaluated => report = find_hands(Canonical(cards))

\* s is the word w up to the case of its letters
IsCaseVariant(s, w) ==
    /\ Len(s) = Len(w)
    /\ \A i \in 1..Len(w) : s[i] \in {LowerChar(w[i]), UpperChar(w[i])}

\* tok is a recognized spelling of the rank r: its key ("A", "2".."10",
\* "J", "Q", "K") or its name in any case, or the integer 2..10
SpellsRank(tok, r) ==
    IF tok.type = "int" THEN tok.n = r /\ r >= 2 /\ r <= 10
    ELSE \/ IsCaseVariant(tok.s, Letters(RANK_KEYS[r]))
         \/ IsCaseVariant(tok.s, Letters(RANKS[r][3]))

\* tok is a recognized spelling of the suit i: its name in any case, or
\* its symbol
SpellsSuit(tok, i) ==
    /\ tok.type = "str"
    /\ \/ IsCaseVariant(tok.s, Letters(NAMES[i]))
       \/ tok.s = <<SYMBOLS[i]>>

IsCard(c) == c \notin {NoReport, ValueError, TypeError}

IsUpperForm(x, c) == UpperChar(x) = UpperChar(c)

\* s is the word w up to the characters upper() identifies
IsUpperVariant(s, w) ==
    /\ Len(s) = Len(w)
    /\ \A i \in 1..Len(w) : IsUpperForm(s[i], w[i])

SpellsRankToUpper(tok, r) ==
    IF tok.type = "int" THEN tok.n = r /\ r >= 2 /\ r <= 10
    ELSE \/ IsUpperVariant(tok.s, Letters(RANK_KEYS[r]))
         \/ IsUpperVariant(tok.s, Letters(RANKS[r][3]))

====
